---- MODULE Spec2Model ----
(***************************************************************************)
(* Global Password Helper (main.py): startup, the hot-key registration,    *)
(* the GetMessage loop, hot_key_callback with its modal prompt and the     *)
(* clipboard handoff, as one sequential process plus its environment (the  *)
(* OS message queue and other processes that may hold the clipboard).      *)
(***************************************************************************)
EXTENDS Integers, Sequences, FiniteSets, TLC

\* ------------------------------------------------------------------ bounds
MaxCreds == 4
MaxMsgs == 2
MaxErrs == 1

\* --------------------------------------------------------------- constants
hot_key_index == 0

Usernames == {"alice", "bob"}
Passwords == {"p1", "p2"}
HelpFlags == {"/?", "-h", "--help"}
ConfigPath == "pw.json"

\* command lines the process may be started with (sys.argv)
ArgvSet ==
    { <<"main.py">>,
      <<"main.py", ConfigPath>>,
      <<"main.py", "-h">>,
      <<"-h", ConfigPath>>,
      <<"main.py", ConfigPath, "extra">> }

Credential == [username : Usernames, password : Passwords]

RECURSIVE SeqsUpTo(_, _)
SeqsUpTo(S, n) ==
    IF n = 0 THEN { <<>> }
    ELSE LET shorter == SeqsUpTo(S, n - 1)
         IN  shorter \cup { Append(s, x) : s \in shorter, x \in S }

\* credential_list arrays a config file may hold
Tables == SeqsUpTo(Credential, MaxCreds)

\* clipboard formats; CF_BITMAP stands for any format the program never writes
Formats == {"CF_TEXT", "CF_UNICODETEXT", "CF_BITMAP"}

\* what SetClipboardText stores: the text in the encoding of the format
EncodeText(text, format) ==
    [enc  |-> IF format = "CF_TEXT" THEN "mbcs" ELSE "utf-16",
     text |-> text]

EmptySlot == [enc |-> "none", text |-> ""]

InitClips ==
    { [f \in Formats |-> EmptySlot],
      [f \in Formats |->
          IF f = "CF_BITMAP" THEN [enc |-> "dib", text |-> "old"]
          ELSE EncodeText("old", f)] }

\* messages the OS may post to the thread queue: <<message, wParam>>
MsgKinds ==
    { <<"WM_HOTKEY", 0>>, <<"WM_HOTKEY", 1>>, <<"WM_TIMER", 0>>, <<"WM_QUIT", 0>> }

VARIABLES
    pc,                 \* position of the main thread
    exc,                \* exception propagating / that ended the process
    exitStatus,         \* process exit status, -1 while running
    argv,               \* sys.argv
    file,               \* credential_list stored in the config file
    config,             \* config["credential_list"] after json.loads
    cred_list,          \* main's cred_list
    dupe_username_list, \* names carried by the duplicate-username error
    usageShown,         \* usage text printed
    notified,           \* startup MessageBox shown
    registered,         \* hot key id 0 is bound to this thread
    regAttempts,        \* calls of RegisterHotKey
    unregCalls,         \* calls of UnregisterHotKey
    loopEntered,        \* GetMessage has been called
    msg,                \* main's MSG buffer
    queue,              \* thread message queue
    posted,             \* number of messages posted so far
    errs,               \* number of GetMessage error results so far
    dispatched,         \* the message last passed to TranslateMessage/DispatchMessageA
    active,             \* invocations of hot_key_callback in progress
    started,            \* msg.time of each invocation of hot_key_callback
    dlgResult,          \* return value of DoModal
    index,              \* Optional[int]: <<>> is None, <<i>> is i
    clipAtEntry,        \* clipboard content when the handler was entered
    openCnt,            \* successful OpenClipboard calls in this invocation
    closeCnt,           \* CloseClipboard calls in this invocation
    logged,             \* lines written by log()
    clip,               \* clipboard content per format
    clipHeld,           \* this process holds the clipboard open
    otherHolds          \* another process holds the clipboard open

ctlVars == <<pc, exc, exitStatus>>
startVars == <<argv, file, config, cred_list, dupe_username_list, usageShown, notified>>
hotkeyVars == <<registered, regAttempts, unregCalls>>
loopVars == <<loopEntered, msg, queue, posted, errs, dispatched>>
handlerVars == <<active, started, dlgResult, index, clipAtEntry, openCnt, closeCnt, logged>>
clipVars == <<clip, clipHeld, otherHolds>>
vars == <<ctlVars, startVars, hotkeyVars, loopVars, handlerVars, clipVars>>

Init ==
    /\ pc = "args"
    /\ exc = "none"
    /\ exitStatus = -1
    /\ argv \in ArgvSet
    /\ file \in Tables
    /\ config = <<>>
    /\ cred_list = <<>>
    /\ dupe_username_list = <<>>
    /\ usageShown = FALSE
    /\ notified = FALSE
    /\ registered = FALSE
    /\ regAttempts = 0
    /\ unregCalls = 0
    /\ loopEntered = FALSE
    /\ msg = [message |-> "WM_NULL", wParam |-> 0, time |-> 0]
    /\ queue = <<>>
    /\ posted = 0
    /\ errs = 0
    /\ dispatched = [message |-> "none", wParam |-> 0, time |-> 0]
    /\ active = 0
    /\ started = <<>>
    /\ dlgResult = "none"
    /\ index = <<>>
    /\ clip \in InitClips
    /\ clipAtEntry = clip
    /\ openCnt = 0
    /\ closeCnt = 0
    /\ logged = <<>>
    /\ clipHeld = FALSE
    /\ otherHolds = FALSE

\* ------------------------------------------------------- exits and unwinding

\* the process ends with status `status`; `e` is what ended it
Exit(status, e) ==
    /\ pc' = "exit"
    /\ exitStatus' = status
    /\ exc' = e

Unwind_NoFinally(e) == Exit(1, e)

\* an exception leaves the body of main's try statement: the finally clause runs
Unwind(e) ==
    /\ pc' = "finally"
    /\ exc' = e
    /\ UNCHANGED exitStatus

RaiseInTry_NoFinally(e) == Unwind(e)

\* an exception raised between OpenClipboard and CloseClipboard: the handler's
\* finally clause runs before the exception travels on
RaiseInTry(e) ==
    /\ pc' = "close"
    /\ exc' = e
    /\ UNCHANGED exitStatus

\* control moves on inside main or the handler
Goto(label) ==
    /\ pc' = label
    /\ UNCHANGED <<exc, exitStatus>>

\* ------------------------------------------------------------------ startup

\* show_help_then_exit(): prints the usage text, sys.exit(1)
show_help_then_exit ==
    /\ usageShown' = TRUE
    /\ Exit(1, "SystemExit")

\* main: 2 != len(argv)
UsageError ==
    /\ pc = "args"
    /\ Len(argv) # 2
    /\ show_help_then_exit
    /\ UNCHANGED <<argv, file, config, cred_list, dupe_username_list, notified>>
    /\ UNCHANGED <<hotkeyVars, loopVars, handlerVars, clipVars>>

\* main: elif argv[0] in ["/?", "-h", "--help"]
HelpRequested ==
    /\ pc = "args"
    /\ Len(argv) = 2
    /\ argv[1] \in HelpFlags
    /\ show_help_then_exit
    /\ UNCHANGED <<argv, file, config, cred_list, dupe_username_list, notified>>
    /\ UNCHANGED <<hotkeyVars, loopVars, handlerVars, clipVars>>

ArgsOk ==
    /\ pc = "args"
    /\ Len(argv) = 2
    /\ argv[1] \notin HelpFlags
    /\ Goto("load")
    /\ UNCHANGED <<startVars, hotkeyVars, loopVars, handlerVars, clipVars>>

\* read_nqjson_file + json.loads on argv[1]: the file exists and parses
LoadConfig ==
    /\ pc = "load"
    /\ argv[2] = ConfigPath
    /\ config' = file
    /\ Goto("validate")
    /\ UNCHANGED <<argv, file, cred_list, dupe_username_list, usageShown, notified>>
    /\ UNCHANGED <<hotkeyVars, loopVars, handlerVars, clipVars>>

\* io.open raises: no such file
LoadFail ==
    /\ pc = "load"
    /\ argv[2] # ConfigPath
    /\ Exit(1, "FileNotFoundError")
    /\ UNCHANGED <<startVars, hotkeyVars, loopVars, handlerVars, clipVars>>

\* collections.Counter(...)[username]
Count(creds, u) ==
    Cardinality({ i \in DOMAIN creds : creds[i].username = u })

\* the keys of the Counter, in insertion (first occurrence) order
RECURSIVE CounterKeys(_)
CounterKeys(creds) ==
    IF creds = <<>> THEN <<>>
    ELSE LET front == SubSeq(creds, 1, Len(creds) - 1)
             last == creds[Len(creds)].username
             keys == CounterKeys(front)
         IN  IF \E i \in DOMAIN keys : keys[i] = last THEN keys
             ELSE Append(keys, last)

IsDupe_AtLeastThree(creds, u) == Count(creds, u) > 2

\* count > 1
IsDupe(creds, u) == Count(creds, u) > 1

\* [username for username, count in c.items() if count > 1]
DupeUsernameList(creds) ==
    SelectSeq(CounterKeys(creds), LAMBDA u : IsDupe(creds, u))

\* assert_no_dupe_username raises: the error carries the list of duplicates
AssertDupeFail ==
    /\ pc = "validate"
    /\ Len(DupeUsernameList(config)) > 0
    /\ dupe_username_list' = DupeUsernameList(config)
    /\ Exit(1, "Duplicate username(s)")
    /\ UNCHANGED <<argv, file, config, cred_list, usageShown, notified>>
    /\ UNCHANGED <<hotkeyVars, loopVars, handlerVars, clipVars>>

\* assert_no_dupe_username returns; cred_list is built from the config
AssertDupeOk ==
    /\ pc = "validate"
    /\ Len(DupeUsernameList(config)) = 0
    /\ cred_list' = config
    /\ Goto("notify")
    /\ UNCHANGED <<argv, file, config, dupe_username_list, usageShown, notified>>
    /\ UNCHANGED <<hotkeyVars, loopVars, handlerVars, clipVars>>

\* win32api.MessageBox("Loaded n credentials ...")
ShowNotification ==
    /\ pc = "notify"
    /\ notified' = TRUE
    /\ Goto("register")
    /\ UNCHANGED <<argv, file, config, cred_list, dupe_username_list, usageShown>>
    /\ UNCHANGED <<hotkeyVars, loopVars, handlerVars, clipVars>>

RegisterFailed_InsideTry == Unwind("Failed: user32.RegisterHotKey()")

\* RegisterHotKey returned zero: raise Exception("Failed: user32.RegisterHotKey()")
RegisterFailed ==
    Exit(1, "Failed: user32.RegisterHotKey()")

\* RegisterHotKey(None, hot_key_index, ...) succeeds or the combination is taken
RegisterHotKey ==
    /\ pc = "register"
    /\ regAttempts' = regAttempts + 1
    /\ \E ok \in BOOLEAN :
          IF ok
          THEN /\ registered' = TRUE
               /\ Goto("get")
          ELSE /\ registered' = registered
               /\ RegisterFailed
    /\ UNCHANGED unregCalls
    /\ UNCHANGED <<startVars, loopVars, handlerVars, clipVars>>

\* -------------------------------------------------------------- environment

\* the OS posts a message to the thread queue (the thread has one once it has
\* called a USER function); WM_HOTKEY for id 0 is posted only while registered
PostMessage ==
    /\ notified
    /\ pc # "exit"
    /\ posted < MaxMsgs
    /\ \E k \in MsgKinds :
          /\ (k = <<"WM_HOTKEY", hot_key_index>>) => registered
          /\ queue' = Append(queue, [message |-> k[1], wParam |-> k[2], time |-> posted + 1])
    /\ posted' = posted + 1
    /\ UNCHANGED <<loopEntered, msg, errs, dispatched>>
    /\ UNCHANGED <<ctlVars, startVars, hotkeyVars, handlerVars, clipVars>>

\* another process opens the clipboard
OtherOpensClipboard ==
    /\ pc # "exit"
    /\ ~clipHeld
    /\ ~otherHolds
    /\ otherHolds' = TRUE
    /\ UNCHANGED <<clip, clipHeld>>
    /\ UNCHANGED <<ctlVars, startVars, hotkeyVars, loopVars, handlerVars>>

\* the other process closes the clipboard
OtherClosesClipboard ==
    /\ pc # "exit"
    /\ otherHolds
    /\ otherHolds' = FALSE
    /\ UNCHANGED <<clip, clipHeld>>
    /\ UNCHANGED <<ctlVars, startVars, hotkeyVars, loopVars, handlerVars>>

\* ----------------------------------------------------------- the message loop

NextMessage_Newest(q) == q[Len(q)]

\* GetMessage retrieves the oldest message of the queue
NextMessage(q) == Head(q)

RestOf(q) ==
    LET m == NextMessage(q)
    IN  SelectSeq(q, LAMBDA x : x # m)

AfterGetMessage_WhilePositive(ret) == IF ret > 0 THEN "route" ELSE "finally"

\* while GetMessageA(...) != 0: the loop body runs, or the loop ends
AfterGetMessage(ret) == IF ret # 0 THEN "route" ELSE "finally"

\* GetMessageA(...) != 0: a message other than WM_QUIT was retrieved into msg
GetMessage ==
    /\ pc = "get"
    /\ queue # <<>>
    /\ NextMessage(queue).message # "WM_QUIT"
    /\ msg' = NextMessage(queue)
    /\ queue' = RestOf(queue)
    /\ loopEntered' = TRUE
    /\ Goto(AfterGetMessage(1))
    /\ UNCHANGED <<posted, errs, dispatched>>
    /\ UNCHANGED <<startVars, hotkeyVars, handlerVars, clipVars>>

\* GetMessageA(...) == 0: WM_QUIT was retrieved, the while loop ends
GetMessageQuit ==
    /\ pc = "get"
    /\ queue # <<>>
    /\ NextMessage(queue).message = "WM_QUIT"
    /\ msg' = NextMessage(queue)
    /\ queue' = RestOf(queue)
    /\ loopEntered' = TRUE
    /\ Goto(AfterGetMessage(0))
    /\ UNCHANGED <<posted, errs, dispatched>>
    /\ UNCHANGED <<startVars, hotkeyVars, handlerVars, clipVars>>

\* GetMessageA(...) == -1: nothing retrieved, msg keeps its content, and the
\* loop body runs because -1 != 0
GetMessageError ==
    /\ pc = "get"
    /\ errs < MaxErrs
    /\ errs' = errs + 1
    /\ loopEntered' = TRUE
    /\ Goto(AfterGetMessage(-1))
    /\ UNCHANGED <<msg, queue, posted, dispatched>>
    /\ UNCHANGED <<startVars, hotkeyVars, handlerVars, clipVars>>

IsHotKeyMessage_AnyId(m) == m.message = "WM_HOTKEY"

\* msg.message == WM_HOTKEY and hot_key_index == msg.wParam
IsHotKeyMessage(m) ==
    /\ m.message = "WM_HOTKEY"
    /\ m.wParam = hot_key_index

\* hot_key_callback(cred_list) is called: the dialog is built, index = None,
\* DoModal starts
CallHandler ==
    /\ pc = "route"
    /\ IsHotKeyMessage(msg)
    /\ active' = active + 1
    /\ started' = Append(started, msg.time)
    /\ dlgResult' = "none"
    /\ index' = <<>>
    /\ clipAtEntry' = clip
    /\ openCnt' = 0
    /\ closeCnt' = 0
    /\ Goto("domodal")
    /\ UNCHANGED logged
    /\ UNCHANGED <<startVars, hotkeyVars, loopVars, clipVars>>

\* any other message: the handler is not called
SkipHandler ==
    /\ pc = "route"
    /\ ~IsHotKeyMessage(msg)
    /\ Goto("translate")
    /\ UNCHANGED <<startVars, hotkeyVars, loopVars, handlerVars, clipVars>>

TranslateDispatch_OnlyOtherwise ==
    /\ pc \in {"translate", "returned"}
    /\ dispatched' = IF pc = "translate" THEN msg ELSE dispatched
    /\ Goto("get")
    /\ UNCHANGED <<loopEntered, msg, queue, posted, errs>>
    /\ UNCHANGED <<startVars, hotkeyVars, handlerVars, clipVars>>

\* TranslateMessage(msg); DispatchMessageA(msg); back to GetMessage. The two
\* calls follow the if statement: they run whether or not the handler ran
TranslateDispatch ==
    /\ pc \in {"translate", "returned"}
    /\ dispatched' = msg
    /\ Goto("get")
    /\ UNCHANGED <<loopEntered, msg, queue, posted, errs>>
    /\ UNCHANGED <<startVars, hotkeyVars, handlerVars, clipVars>>

\* finally: UnregisterHotKey(None, hot_key_index); then main returns (status 0)
\* or the exception ends the process (status 1)
Finally ==
    /\ pc = "finally"
    /\ registered' = FALSE
    /\ unregCalls' = unregCalls + 1
    /\ Exit(IF exc = "none" THEN 0 ELSE 1, exc)
    /\ UNCHANGED regAttempts
    /\ UNCHANGED <<startVars, loopVars, handlerVars, clipVars>>

\* ------------------------------------------------------------------ handler

\* username_list = [c.username for c in cred_list]
UsernameList(creds) == [i \in DOMAIN creds |-> creds[i].username]

\* dlg.selecteditem when DoModal returns: no item, or the 0-based position
\* of the highlighted label
SelectedItems(labels) == { <<>> } \cup { <<i>> : i \in 0 .. Len(labels) - 1 }

IndexAfterPrompt_IgnoreResult(result, selecteditem) == selecteditem

\* index = None; if dlg.DoModal() == IDOK: index = dlg.selecteditem
IndexAfterPrompt(result, selecteditem) ==
    IF result = "IDOK" THEN selecteditem ELSE <<>>

\* DoModal returns: the user committed an item (IDOK) or dismissed the dialog
DoModalReturns ==
    /\ pc = "domodal"
    /\ \E result \in {"IDOK", "IDCANCEL"} :
       \E sel \in SelectedItems(UsernameList(cred_list)) :
          /\ (result = "IDOK") => sel # <<>>
          /\ dlgResult' = result
          /\ index' = IndexAfterPrompt(result, sel)
    /\ Goto("check")
    /\ UNCHANGED <<active, started, clipAtEntry, openCnt, closeCnt, logged>>
    /\ UNCHANGED <<startVars, hotkeyVars, loopVars, clipVars>>

\* while the dialog is modal its own message pump retrieves the messages of the
\* thread queue; a message addressed to no window is dropped by it
DoModalPump ==
    /\ pc = "domodal"
    /\ queue # <<>>
    /\ NextMessage(queue).message # "WM_QUIT"
    /\ queue' = RestOf(queue)
    /\ UNCHANGED <<loopEntered, msg, posted, errs, dispatched>>
    /\ UNCHANGED <<ctlVars, startVars, hotkeyVars, handlerVars, clipVars>>

\* the handler's frame is left, by return or by an exception
LeaveHandler ==
    active' = active - 1

\* the dialog cannot be created or run: win32ui.error leaves the handler
DoModalRaises ==
    /\ pc = "domodal"
    /\ LeaveHandler
    /\ Unwind("win32ui.error")
    /\ UNCHANGED <<started, dlgResult, index, clipAtEntry, openCnt, closeCnt, logged>>
    /\ UNCHANGED <<startVars, hotkeyVars, loopVars, clipVars>>

\* if index is None: log("... cancelled ..."); return
HandlerCancelled ==
    /\ pc = "check"
    /\ index = <<>>
    /\ logged' = Append(logged, [event |-> "cancelled", username |-> ""])
    /\ LeaveHandler
    /\ Goto("returned")
    /\ UNCHANGED <<started, dlgResult, index, clipAtEntry, openCnt, closeCnt>>
    /\ UNCHANGED <<startVars, hotkeyVars, loopVars, clipVars>>

CredAt_First(creds, i) == creds[1]

\* cred = cred_list[index], index counted from 0
CredAt(creds, i) == creds[i + 1]

\* the record the handler works on after the prompt
cred == CredAt(cred_list, index[1])

\* win32clipboard.OpenClipboard() succeeds
OpenClipboard ==
    /\ pc = "check"
    /\ index # <<>>
    /\ ~otherHolds
    /\ clipHeld' = TRUE
    /\ openCnt' = openCnt + 1
    /\ Goto("set_text")
    /\ UNCHANGED <<clip, otherHolds>>
    /\ UNCHANGED <<active, started, dlgResult, index, clipAtEntry, closeCnt, logged>>
    /\ UNCHANGED <<startVars, hotkeyVars, loopVars>>

\* win32clipboard.OpenClipboard() raises: another process holds the clipboard.
\* The call is outside the try statement and nothing catches the error
OpenClipboardRaises ==
    /\ pc = "check"
    /\ index # <<>>
    /\ otherHolds
    /\ LeaveHandler
    /\ Unwind("OpenClipboard")
    /\ UNCHANGED <<started, dlgResult, index, clipAtEntry, openCnt, closeCnt, logged>>
    /\ UNCHANGED <<startVars, hotkeyVars, loopVars, clipVars>>

SetClipboardText_WrongRecordField(text, format) ==
    [clip EXCEPT ![format] = EncodeText(cred.username, format)]

SetClipboardText_Append(text, format) ==
    [clip EXCEPT ![format] =
        EncodeText(IF clip[format] = EmptySlot THEN text ELSE clip[format].text \o text, format)]

\* SetClipboardText(text, format): the clipboard after the call
SetClipboardText(text, format) ==
    [clip EXCEPT ![format] = EncodeText(text, format)]

\* SetClipboardText(cred.password, CF_TEXT) stores the text or raises
SetText ==
    /\ pc = "set_text"
    /\ \/ /\ clip' = SetClipboardText(cred.password, "CF_TEXT")
          /\ Goto("set_unicode")
       \/ /\ clip' = clip
          /\ RaiseInTry("SetClipboardText")
    /\ UNCHANGED <<clipHeld, otherHolds>>
    /\ UNCHANGED <<startVars, hotkeyVars, loopVars, handlerVars>>

\* SetClipboardText(cred.password, CF_UNICODETEXT) stores the text or raises
SetUnicode ==
    /\ pc = "set_unicode"
    /\ \/ /\ clip' = SetClipboardText(cred.password, "CF_UNICODETEXT")
          /\ Goto("close")
       \/ /\ clip' = clip
          /\ RaiseInTry("SetClipboardText")
    /\ UNCHANGED <<clipHeld, otherHolds>>
    /\ UNCHANGED <<startVars, hotkeyVars, loopVars, handlerVars>>

ReleaseClipboard_Leak == clipHeld' = clipHeld

\* the effect of CloseClipboard on the clipboard lock
ReleaseClipboard == clipHeld' = FALSE

\* finally: CloseClipboard(); then on to the log line, or the pending
\* exception leaves the handler
CloseClipboard ==
    /\ pc = "close"
    /\ ReleaseClipboard
    /\ closeCnt' = closeCnt + 1
    /\ IF exc = "none"
       THEN /\ Goto("log")
            /\ active' = active
       ELSE /\ Unwind(exc)
            /\ LeaveHandler
    /\ UNCHANGED <<clip, otherHolds>>
    /\ UNCHANGED <<started, dlgResult, index, clipAtEntry, openCnt, logged>>
    /\ UNCHANGED <<startVars, hotkeyVars, loopVars>>

\* log("... selected username: ...: Password copied to clipboard"); return
HandlerCopied ==
    /\ pc = "log"
    /\ logged' = Append(logged, [event |-> "copied", username |-> cred.username])
    /\ LeaveHandler
    /\ Goto("returned")
    /\ UNCHANGED <<started, dlgResult, index, clipAtEntry, openCnt, closeCnt>>
    /\ UNCHANGED <<startVars, hotkeyVars, loopVars, clipVars>>

\* ------------------------------------------------------------ specification

Next ==
    \/ UsageError
    \/ HelpRequested
    \/ ArgsOk
    \/ LoadConfig
    \/ LoadFail
    \/ AssertDupeFail
    \/ AssertDupeOk
    \/ ShowNotification
    \/ RegisterHotKey
    \/ PostMessage
    \/ OtherOpensClipboard
    \/ OtherClosesClipboard
    \/ GetMessage
    \/ GetMessageQuit
    \/ GetMessageError
    \/ CallHandler
    \/ SkipHandler
    \/ TranslateDispatch
    \/ Finally
    \/ DoModalReturns
    \/ DoModalPump
    \/ DoModalRaises
    \/ HandlerCancelled
    \/ OpenClipboard
    \/ OpenClipboardRaises
    \/ SetText
    \/ SetUnicode
    \/ CloseClipboard
    \/ HandlerCopied

Spec == Init /\ [][Next]_vars

\* ------------------------------------------------------------------- claims

RegisterFailedMsg == "Failed: user32.RegisterHotKey()"

\* RegisterHotKey was called and returned non-zero
RegistrationSucceeded == regAttempts > 0 /\ exc # RegisterFailedMsg

\* C1: when RegisterHotKey succeeded, UnregisterHotKey is called exactly once
\* before the process exits, on the normal quit and on every fault that leaves
\* the loop: never twice, and the binding is never left registered at exit.
C1_UnregisteredExactlyOnce ==
    /\ unregCalls <= 1
    /\ registered => unregCalls = 0
    /\ (RegistrationSucceeded /\ pc # "exit") => (registered <=> unregCalls = 0)
    /\ (RegistrationSucceeded /\ pc = "exit") => (unregCalls = 1 /\ ~registered)

\* a fault inside hot_key_callback ended the process after the unregistration
C1_Witness ==
    /\ pc = "exit"
    /\ exc = "SetClipboardText"
    /\ unregCalls = 1
    /\ ~registered

\* C2: a failing OpenClipboard (another process holds the clipboard) is
\* recoverable: the activation is dropped, the loop keeps running and the hot
\* key stays registered.
C2_OpenFailureIsRecoverable ==
    exc = "OpenClipboard" =>
        /\ pc \notin {"finally", "exit"}
        /\ registered

\* C3: at most one invocation of hot_key_callback is active, and invocations
\* begin in the order in which their messages were posted.
C3_Serialized ==
    /\ active <= 1
    /\ \A i, j \in DOMAIN started : i < j => started[i] <= started[j]

\* two activations posted back-to-back: the second handler runs after the first
\* has returned
C3_Witness ==
    /\ Len(started) = 2
    /\ started[1] < started[2]
    /\ Len(logged) = 1
    /\ pc = "domodal"
    /\ active = 1

\* C4: after the handler returns from a committed prompt with index i, the
\* clipboard holds cred_list[i].password as CF_TEXT and as CF_UNICODETEXT.
C4_ClipboardHoldsSelected ==
    (pc = "returned" /\ index # <<>>) =>
        LET p == cred_list[index[1] + 1].password
        IN  /\ clip["CF_TEXT"] = [enc |-> "mbcs", text |-> p]
            /\ clip["CF_UNICODETEXT"] = [enc |-> "utf-16", text |-> p]

\* table [x/p1, y/p2], index 1: the clipboard holds p2
C4_Witness ==
    /\ pc = "returned"
    /\ index = <<1>>
    /\ Len(cred_list) = 2
    /\ cred_list[1].password = "p1"
    /\ cred_list[2].password = "p2"
    /\ clip["CF_TEXT"].text = "p2"
    /\ clip["CF_UNICODETEXT"].text = "p2"

\* C5: when DoModal does not return IDOK the handler returns without opening
\* or writing the clipboard: its content is what it was when the handler was
\* entered, no fault is raised, the hot key stays registered and the loop goes
\* on to fetch the next message.
C5_CancelLeavesClipboard ==
    (pc = "returned" /\ dlgResult = "IDCANCEL") =>
        /\ clip = clipAtEntry
        /\ openCnt = 0
        /\ closeCnt = 0
        /\ ~clipHeld
        /\ exc = "none"
        /\ registered
        /\ logged[Len(logged)].event = "cancelled"
        /\ ENABLED TranslateDispatch

\* a prompt with a highlighted item was dismissed over a non-empty clipboard
C5_Witness ==
    /\ pc = "returned"
    /\ dlgResult = "IDCANCEL"
    /\ Len(cred_list) = 2
    /\ clip["CF_TEXT"].text = "old"
    /\ clip = clipAtEntry

HandlerPcs == {"domodal", "check", "set_text", "set_unicode", "close", "log"}

\* C6: every successful OpenClipboard of an invocation is followed by exactly
\* one CloseClipboard before the handler returns or unwinds, CloseClipboard is
\* never called without a successful OpenClipboard, and outside the handler
\* the clipboard is not held by this process.
C6_ScopedClipboard ==
    /\ closeCnt <= openCnt
    /\ openCnt <= 1
    /\ clipHeld <=> openCnt > closeCnt
    /\ pc \notin HandlerPcs => (~clipHeld /\ closeCnt = openCnt)
    /\ exc = "OpenClipboard" => closeCnt = 0

\* the second write faulted and the clipboard was closed before unwinding
C6_Witness ==
    /\ pc = "finally"
    /\ exc = "SetClipboardText"
    /\ clip["CF_TEXT"] # clipAtEntry["CF_TEXT"]
    /\ openCnt = 1
    /\ closeCnt = 1
    /\ ~clipHeld

\* C7: while the selection prompt is open the clipboard is not held by this
\* process.
C7_PromptNeverHoldsClipboard ==
    pc = "domodal" => ~clipHeld

\* a prompt opened after an earlier activation copied a password
C7_Witness ==
    /\ pc = "domodal"
    /\ Len(logged) > 0
    /\ logged[Len(logged)].event = "copied"
    /\ ~clipHeld

\* C8: when RegisterHotKey fails the process ends with an error without
\* entering the loop, without invoking the handler and without calling
\* UnregisterHotKey.
C8_RegisterFailureIsFatal ==
    exc = RegisterFailedMsg =>
        /\ pc = "exit"
        /\ exitStatus = 1
        /\ ~loopEntered
        /\ started = <<>>
        /\ unregCalls = 0
        /\ ~registered

C8_Witness ==
    /\ pc = "exit"
    /\ exc = RegisterFailedMsg
    /\ regAttempts = 1

\* the usernames that occur more than once in a credential list
DuplicatedUsernames(creds) ==
    { u \in Usernames :
        \E i, j \in DOMAIN creds :
            i # j /\ creds[i].username = u /\ creds[j].username = u }

\* C9: when the loaded configuration has a username twice or more, startup
\* fails with an error naming every duplicated username, before the
\* notification, before RegisterHotKey and before the loop.
C9_DuplicatesAreFatal ==
    DuplicatedUsernames(config) # {} =>
        /\ ~notified
        /\ regAttempts = 0
        /\ ~loopEntered
        /\ \/ pc = "validate"
           \/ /\ pc = "exit"
              /\ exitStatus = 1
              /\ exc = "Duplicate username(s)"
              /\ { dupe_username_list[i] : i \in DOMAIN dupe_username_list }
                    = DuplicatedUsernames(config)

\* two usernames are duplicated and both are named
C9_Witness ==
    /\ pc = "exit"
    /\ exc = "Duplicate username(s)"
    /\ Len(dupe_username_list) = 2

\* C10: a hot-key activation posted while the prompt is open stays queued until
\* the loop's GetMessage retrieves it.
C10_ActivationStaysQueued ==
    [][\A i \in DOMAIN queue :
          IsHotKeyMessage(queue[i]) =>
              \/ \E j \in DOMAIN queue' : queue'[j] = queue[i]
              \/ (pc = "get" /\ msg' = queue[i])]_vars

\* C11: the loop ends normally exactly when GetMessage returned 0 (WM_QUIT was
\* retrieved): then nothing more is dispatched or handled, the hot key is
\* unregistered and the process exits with status 0; no other fetch result
\* ends the loop without an exception.
C11_QuitIsTheOnlyNormalEnd ==
    /\ (pc = "exit" /\ exitStatus = 0) =>
          /\ msg.message = "WM_QUIT"
          /\ exc = "none"
          /\ unregCalls = 1
          /\ ~registered
    /\ (pc = "finally" /\ exc = "none") => msg.message = "WM_QUIT"
    /\ msg.message = "WM_QUIT" =>
          /\ pc \in {"finally", "exit"}
          /\ exc = "none"
          /\ active = 0
          /\ pc = "exit" => exitStatus = 0
          /\ \A i \in DOMAIN started : started[i] < msg.time

\* the process ended with status 0 after one activation, leaving a later
\* message in the queue
C11_Witness ==
    /\ pc = "exit"
    /\ exitStatus = 0
    /\ msg.message = "WM_QUIT"
    /\ queue # <<>>
    /\ unregCalls = 1

\* the last two log lines report a copy for the same username
SameRecordCopiedTwice ==
    /\ Len(logged) >= 2
    /\ logged[Len(logged)].event = "copied"
    /\ logged[Len(logged) - 1].event = "copied"
    /\ logged[Len(logged)].username = logged[Len(logged) - 1].username

\* C12: two handoffs in succession with the same secret leave the clipboard
\* as the first one left it, holding the secret as CF_TEXT and as
\* CF_UNICODETEXT, and the second open/close pair is complete and alone.
C12_HandoffIdempotent ==
    (pc = "returned" /\ index # <<>> /\ SameRecordCopiedTwice) =>
        LET s == cred_list[index[1] + 1].password
        IN  /\ clip = clipAtEntry
            /\ clip["CF_TEXT"] = [enc |-> "mbcs", text |-> s]
            /\ clip["CF_UNICODETEXT"] = [enc |-> "utf-16", text |-> s]
            /\ openCnt = 1
            /\ closeCnt = 1
            /\ ~clipHeld

\* the same record was selected in two activations
C12_Witness ==
    /\ pc = "returned"
    /\ index # <<>>
    /\ SameRecordCopiedTwice
    /\ Len(started) = 2
    /\ started[1] < started[2]
    /\ clip["CF_TEXT"].text = "p2"

\* C13: after a successful handoff the clipboard holds the selected secret and
\* nothing else: no format keeps content that was there before the handoff.
C13_NothingPreserved ==
    (pc = "returned" /\ index # <<>>) =>
        \A f \in Formats :
            \/ clip[f] = EmptySlot
            \/ clip[f] = EncodeText(cred_list[index[1] + 1].password, f)

\* C14: a command line whose argument is a help flag, or with a missing or an
\* extra argument, prints the usage text and exits with status 1 before the
\* config file is read, the notification shown or the hot key registered.
C14_UsageOnHelpOrBadArity ==
    (pc # "args" /\ (Len(argv) # 2 \/ argv[2] \in HelpFlags)) =>
        /\ pc = "exit"
        /\ usageShown
        /\ exitStatus = 1
        /\ exc = "SystemExit"
        /\ config = <<>>
        /\ ~notified
        /\ regAttempts = 0

\* a WM_HOTKEY message carrying the registered id
RegisteredActivation(m) == m.message = "WM_HOTKEY" /\ m.wParam = 0

\* C15 as stated: a hot-key activation for the registered id goes to the
\* handler and is not also passed to TranslateMessage/DispatchMessageA.
C15_ExclusiveRouting ==
    ~RegisteredActivation(dispatched)

\* C15 as amended: the handler runs for the hot-key activations of the
\* registered id and for no other message, and every message the loop body
\* runs for, hot-key activations after their handler returned included, is
\* passed to TranslateMessage/DispatchMessageA.
C15_HandlerThenDispatch ==
    /\ pc \in (HandlerPcs \cup {"returned"}) => RegisteredActivation(msg)
    /\ pc = "translate" => ~RegisteredActivation(msg)
    /\ (pc = "get" /\ loopEntered) => dispatched = msg

\* a hot-key activation was handled and then dispatched
C15_Witness ==
    /\ pc = "get"
    /\ RegisteredActivation(msg)
    /\ dispatched = msg
    /\ Len(logged) = 1

\* C16: while the loop body runs for a message that is not WM_HOTKEY with
\* wParam 0 (a WM_HOTKEY with another id included), the handler is not
\* entered: no prompt opens, the clipboard is neither opened nor written, and
\* the registration, the credential table and the log stay as they are.
C16_OtherMessagesChangeNothing ==
    [][(pc \in {"route", "translate"} /\ ~RegisteredActivation(msg)) =>
          /\ pc' \in {"route", "translate", "get"}
          /\ active' = active
          /\ started' = started
          /\ clip' = clip
          /\ clipHeld' = clipHeld
          /\ openCnt' = openCnt
          /\ registered' = registered
          /\ cred_list' = cred_list
          /\ logged' = logged]_vars

\* a WM_HOTKEY with another id was routed past the handler
C16_Witness ==
    /\ pc = "translate"
    /\ msg.message = "WM_HOTKEY"
    /\ msg.wParam = 1
    /\ registered
    /\ active = 0

\* C17: the handler runs at most once for each hot-key activation message:
\* no two invocations are for the same message, also when GetMessage returns
\* -1 and leaves the previous message in the buffer.
C17_OncePerActivation ==
    \A i, j \in DOMAIN started : i # j => started[i] # started[j]

\* C18: whenever this process does not hold the clipboard, CF_TEXT and
\* CF_UNICODETEXT agree: both hold the secret of the last handoff, or neither
\* was changed by it.
C18_BothFormsOrNeither ==
    ~clipHeld =>
        \/ /\ clip["CF_TEXT"] = clipAtEntry["CF_TEXT"]
           /\ clip["CF_UNICODETEXT"] = clipAtEntry["CF_UNICODETEXT"]
        \/ /\ index # <<>>
           /\ clip["CF_TEXT"] = EncodeText(cred_list[index[1] + 1].password, "CF_TEXT")
           /\ clip["CF_UNICODETEXT"] =
                 EncodeText(cred_list[index[1] + 1].password, "CF_UNICODETEXT")

====
